---- MODULE Spec2Model ----
(***************************************************************************)
(* Model of great_expectations/datasource/fluent/sqlite_datasource.py and  *)
(* of the REST contract test tests/integration/cloud/rest_contracts/       *)
(* test_datasource.py.                                                     *)
(*                                                                         *)
(* Python values are modelled as follows: a dict is a TLA+ function whose  *)
(* DOMAIN is the set of its keys, a list is a sequence, None is the string *)
(* "None", a class is the string of its name, and a call's outcome is a    *)
(* record with kind "return" (and its value) or kind "raise" (and the      *)
(* exception class).                                                       *)
(***************************************************************************)
EXTENDS Integers, Sequences, FiniteSets, TLC

VARIABLES
    partitioner,    \* a PartitionerConvertedDateTime instance (its fields)
    options,        \* the caller's BatchRequestOptions mapping
    last_call,      \* the most recent method call on the partitioner and its outcome
    dsn_call,       \* the most recent SqliteDsn validation and its outcome
    ds,             \* a SqliteDatasource instance: its pydantic fields
    config_provider,\* the datasource's _config_provider (None when the datasource is detached)
    poolclass,      \* SqliteDatasource._poolclass
    sa_installed,   \* whether sqlalchemy could be imported
    engine_calls,   \* the calls of sa.create_engine made so far, with their arguments
    engines,        \* the engines those calls opened
    warnings,       \* the warnings emitted so far
    ds_call,        \* the outcome of the most recent _create_engine
    asset_count,    \* how many asset objects have been constructed
    asset_call,     \* the most recent asset construction or add_*_asset call
    pact_pc,        \* where the contract test stands
    pact_path,      \* the endpoint path the test built
    pact_mock,      \* the interactions registered with the pact mock service
    pact_exchange   \* the request sent and the response received

pvars == <<partitioner, options, last_call>>

dvars == <<dsn_call>>

evars == <<ds, config_provider, poolclass, sa_installed, engine_calls, engines,
           warnings, ds_call>>

avars == <<asset_count, asset_call>>

cvars == <<pact_pc, pact_path, pact_mock, pact_exchange>>

vars == <<pvars, dvars, evars, avars, cvars>>

None == "None"

NoCall == [op |-> "none"]

Return(v) == [kind |-> "return", value |-> v]

Raise(e) == [kind |-> "raise", exc |-> e]

(***************************************************************************)
(* Input domains.                                                          *)
(***************************************************************************)
ColumnNames == {"col_a", "datetime", "ts"}

DateFormatStrings == {"%Y-%m-%d", "%Y%m%d"}

OptionKeys == {"datetime", "year", "col_a"}

OptionValues == {None, "2021-01-01", "20210101"}

\* every dict whose keys are among OptionKeys
AllOptions == UNION {[S -> OptionValues] : S \in SUBSET OptionKeys}

(***************************************************************************)
(* class PartitionerConvertedDateTime                                      *)
(***************************************************************************)
PartitionerConvertedDateTime ==
    [date_format_string : DateFormatStrings,
     column_name : ColumnNames,
     method_name : {"partition_on_converted_datetime"}]

param_names_Mutant(self) == <<"year">>

param_names(self) == <<"datetime">>

partitioner_method_kwargs(self) ==
    [k \in {"column_name", "date_format_string"} |->
        IF k = "column_name" THEN self.column_name ELSE self.date_format_string]

\* keys the identifier by the parameter name instead of the column name
Identifiers_KeyMutant(self, opts) ==
    IF "datetime" \notin DOMAIN opts
    THEN Raise("ValueError")
    ELSE Return([k \in {"datetime"} |-> opts["datetime"]])

\* reads the parameter leniently (dict.get) instead of raising
Identifiers_LenientMutant(self, opts) ==
    IF "datetime" \notin DOMAIN opts
    THEN Return([k \in {self.column_name} |-> None])
    ELSE Return([k \in {self.column_name} |-> opts["datetime"]])

batch_request_options_to_batch_spec_kwarg_identifiers(self, opts) ==
    IF "datetime" \notin DOMAIN opts
    THEN Raise("ValueError")
    ELSE Return([k \in {self.column_name} |-> opts["datetime"]])

StartPartitioner ==
    /\ partitioner \in PartitionerConvertedDateTime
    /\ options \in AllOptions
    /\ last_call = NoCall

\* the caller builds the batch request options of its next request; the
\* outcome of the previous request is dropped
SetOptions ==
    /\ \E o \in AllOptions : options' = o
    /\ last_call' = NoCall
    /\ UNCHANGED <<partitioner, dvars, evars, avars, cvars>>

CallParamNames ==
    /\ last_call' = [op |-> "param_names", self |-> partitioner,
                     outcome |-> Return(param_names(partitioner))]
    /\ UNCHANGED <<partitioner, options, dvars, evars, avars, cvars>>

CallPartitionerMethodKwargs ==
    /\ last_call' = [op |-> "partitioner_method_kwargs", self |-> partitioner,
                     outcome |-> Return(partitioner_method_kwargs(partitioner))]
    /\ UNCHANGED <<partitioner, options, dvars, evars, avars, cvars>>

CallBatchRequestOptionsToIdentifiers ==
    /\ last_call' = [op |-> "batch_request_options_to_batch_spec_kwarg_identifiers",
                     self |-> partitioner, options |-> options,
                     outcome |-> batch_request_options_to_batch_spec_kwarg_identifiers(
                                     partitioner, options)]
    /\ UNCHANGED <<partitioner, options, dvars, evars, avars, cvars>>

NextPartitioner ==
    \/ SetOptions
    \/ CallParamNames
    \/ CallPartitionerMethodKwargs
    \/ CallBatchRequestOptionsToIdentifiers

(***************************************************************************)
(* class SqliteDsn(pydantic.AnyUrl)                                        *)
(*                                                                         *)
(* A connection string is modelled by the parts pydantic parses it into:   *)
(* its scheme (None when the string has none), its host (None when the     *)
(* string has none) and its path.                                          *)
(***************************************************************************)
Schemes ==
    {None, "sqlite", "sqlite+pysqlite", "sqlite+aiosqlite", "sqlite+pysqlcipher",
     "sqlite3", "sqlite+", "sqlite+pysqlite2", "postgresql", "postgresql+psycopg2",
     "mysql", "file", "http"}

Hosts == {None, "localhost", "127.0.0.1"}

Paths == {"", "/:memory:", "/data/test.db", "//abs/test.db"}

Urls == [scheme : Schemes, host : Hosts, path : Paths]

\* drops one of the dialect's drivers
allowed_schemes_Mutant == {"sqlite", "sqlite+pysqlite", "sqlite+aiosqlite"}

allowed_schemes ==
    {"sqlite", "sqlite+pysqlite", "sqlite+aiosqlite", "sqlite+pysqlcipher"}

host_required == FALSE

SqliteDsn == [allowed_schemes |-> allowed_schemes, host_required |-> host_required]

\* pydantic.AnyUrl.validate for a subclass cls: the scheme must be present and
\* one of cls.allowed_schemes, and the host present when cls.host_required
AnyUrl_validate(cls, url) ==
    IF url.scheme = None THEN Raise("UrlSchemeError")
    ELSE IF cls.allowed_schemes # {} /\ url.scheme \notin cls.allowed_schemes
         THEN Raise("UrlSchemePermittedError")
    ELSE IF cls.host_required /\ url.host = None THEN Raise("UrlHostError")
    ELSE Return(url)

StartDsn == dsn_call = NoCall

ValidateSqliteDsn ==
    /\ \E u \in Urls :
          dsn_call' = [op |-> "validate", url |-> u,
                       outcome |-> AnyUrl_validate(SqliteDsn, u)]
    /\ UNCHANGED <<pvars, evars, avars, cvars>>

NextDsn == ValidateSqliteDsn

(***************************************************************************)
(* class SqliteDatasource(SQLDatasource): fields and _create_engine        *)
(***************************************************************************)
MaxEngineCalls == 2

PoolClasses == {"StaticPool", "NullPool", "QueuePool"}

\* the class attribute as the class body sets it
default_poolclass(sa) == IF sa THEN "StaticPool" ELSE None

ConfigStr(t) == [type |-> "ConfigStr", template |-> t]

Dsn(u) == [type |-> "SqliteDsn", url |-> u]

Str(u) == [type |-> "str", url |-> u]

Templates == {"${SQLITE_URL}", "${SQLITE_TEST_URL}"}

DatabaseUrls == {u \in Urls : u.host = None /\ u.path = "/data/test.db"}

\* connection_string: Union[ConfigStr, SqliteDsn], as pydantic validates the
\* field: a string holding a ${...} template is kept as a ConfigStr, any
\* other string must pass SqliteDsn
ConnectionStrings ==
    {ConfigStr(t) : t \in Templates}
      \cup {Dsn(u) : u \in {v \in DatabaseUrls :
                              AnyUrl_validate(SqliteDsn, v).kind = "return"}}

NoKwargs == <<>>

KwargsValues ==
    {NoKwargs, [echo |-> "True"], [echo |-> "True", future |-> "True"],
     [poolclass |-> "NullPool"]}

RequiredFields == {"name", "type", "connection_string"}

OptionalFields == {"create_temp_table", "kwargs"}

\* the instances pydantic can construct: a field that was not passed holds
\* its default and is missing from fields_set
SqliteDatasource ==
    {d \in [name : {"my_sqlite"}, type : {"sqlite"},
            connection_string : ConnectionStrings,
            create_temp_table : BOOLEAN, kwargs : KwargsValues,
            fields_set : {RequiredFields \cup S : S \in SUBSET OptionalFields}] :
        /\ "kwargs" \notin d.fields_set => d.kwargs = NoKwargs
        /\ "create_temp_table" \notin d.fields_set => d.create_temp_table = FALSE}

NoProvider == [present |-> FALSE]

\* a provider that knows the first template's variable only
Provider ==
    [present |-> TRUE,
     values |-> [t \in {"${SQLITE_URL}"} |->
                    [scheme |-> "sqlite", host |-> None, path |-> "/data/test.db"]]]

ConfigProviders == {NoProvider, Provider}

\* Datasource._get_exec_engine_excludes: the fields that never go to the engine
get_exec_engine_excludes(self) == {"name", "type", "id", "assets"}

\* FluentBaseModel.dict(exclude=..., config_provider=...): the fields that
\* were set, minus the excluded ones, every ConfigStr replaced by what the
\* provider resolves it to; without a provider the values stay as they are
model_dict_of(self, exclude, provider) ==
    LET keys == self.fields_set \ exclude
        cs   == self.connection_string
    IN  IF /\ provider.present
           /\ "connection_string" \in keys
           /\ cs.type = "ConfigStr"
           /\ cs.template \notin DOMAIN provider.values
        THEN Raise("MissingConfigVariableError")
        ELSE Return([k \in keys |->
                 IF k = "connection_string" /\ provider.present /\ cs.type = "ConfigStr"
                 THEN Str(provider.values[cs.template])
                 ELSE self[k]])

\* _check_config_substitutions_needed: the keys whose value is still a ConfigStr
need_config_subs(model_dict) ==
    {k \in DOMAIN model_dict :
        k = "connection_string" /\ model_dict[k].type = "ConfigStr"}

\* leaves the pool class to sqlalchemy's default
create_engine_args_Mutant(connection_string, pool, kwargs) ==
    [connection_string |-> connection_string, poolclass |-> "QueuePool",
     kwargs |-> kwargs]

\* the arguments of sa.create_engine(connection_string, poolclass=..., **kwargs)
create_engine_args(connection_string, pool, kwargs) ==
    [connection_string |-> connection_string, poolclass |-> pool, kwargs |-> kwargs]

StartEngine ==
    /\ ds \in SqliteDatasource
    /\ config_provider \in ConfigProviders
    /\ sa_installed \in BOOLEAN
    /\ poolclass = default_poolclass(sa_installed)
    /\ engine_calls = <<>>
    /\ engines = <<>>
    /\ warnings = {}
    /\ ds_call = NoCall

IdleEngine ==
    /\ ds = [name |-> "my_sqlite", type |-> "sqlite",
             connection_string |-> ConfigStr("${SQLITE_URL}"),
             create_temp_table |-> FALSE, kwargs |-> NoKwargs,
             fields_set |-> RequiredFields]
    /\ config_provider = NoProvider
    /\ sa_installed = TRUE
    /\ poolclass = default_poolclass(TRUE)
    /\ engine_calls = <<>>
    /\ engines = <<>>
    /\ warnings = {}
    /\ ds_call = NoCall

\* "if needed a user could set a different `_poolclass` on the datasource"
SetPoolclass ==
    /\ sa_installed
    /\ \E p \in PoolClasses : poolclass' = p
    /\ UNCHANGED <<ds, config_provider, sa_installed, engine_calls, engines,
                   warnings, ds_call, pvars, dvars, avars, cvars>>

\* _create_engine ends in an exception before sa.create_engine is called
CreateEngineFails(exc, warned) ==
    /\ ds_call' = [op |-> "_create_engine", outcome |-> Raise(exc)]
    /\ warnings' = warnings \cup warned
    /\ UNCHANGED <<engine_calls, engines>>

\* sa.create_engine is called; sqlalchemy opens an engine for a string it
\* can parse as a URL and refuses anything else
CreateEngineCalls(args, warned) ==
    /\ engine_calls' = Append(engine_calls, args)
    /\ warnings' = warnings \cup warned
    /\ IF args.connection_string.type = "ConfigStr"
       THEN /\ ds_call' = [op |-> "_create_engine", outcome |-> Raise("ArgumentError")]
            /\ UNCHANGED engines
       ELSE /\ ds_call' = [op |-> "_create_engine", outcome |-> Return(args)]
            /\ engines' = Append(engines, args)

CreateEngine ==
    /\ Len(engine_calls) < MaxEngineCalls
    /\ LET d == model_dict_of(ds, get_exec_engine_excludes(ds), config_provider)
       IN  IF d.kind = "raise"
           THEN CreateEngineFails(d.exc, {})
           ELSE LET model_dict == d.value
                    warn == /\ need_config_subs(model_dict) # {}
                            /\ ~config_provider.present
                    warned == IF warn THEN {"config variables need substitution"}
                                      ELSE {}
                    connection_string == model_dict["connection_string"]
                    kwargs == IF "kwargs" \in DOMAIN model_dict
                              THEN model_dict["kwargs"] ELSE NoKwargs
                IN  \/ \* the warning filter turns the warning into an exception
                       /\ warn
                       /\ CreateEngineFails("UserWarning", {})
                    \/ IF ~sa_installed
                       THEN CreateEngineFails("ModuleNotFoundError", warned)
                       ELSE IF "poolclass" \in DOMAIN kwargs
                       THEN CreateEngineFails("TypeError", warned)
                       ELSE CreateEngineCalls(
                                create_engine_args(connection_string, poolclass, kwargs),
                                warned)
    /\ UNCHANGED <<ds, config_provider, poolclass, sa_installed, pvars, dvars, avars, cvars>>

NextEngine ==
    \/ SetPoolclass
    \/ CreateEngine

(***************************************************************************)
(* SqliteTableAsset, SqliteQueryAsset and the asset factories of           *)
(* SqliteDatasource                                                        *)
(***************************************************************************)
MaxAssets == 2

PartitionerTypes ==
    {"PartitionerYear", "PartitionerColumnValue", "PartitionerConvertedDatetime"}

\* what the constructor of the generic asset may leave in
\* _partitioner_implementation_map: any of these
BaseMaps ==
    {m \in UNION {[S -> {None, "SqlPartitionerYear", "SqlPartitionerColumnValue",
                         "SqlPartitionerConvertedDatetime"}] :
                    S \in SUBSET PartitionerTypes} :
        /\ "PartitionerYear" \in DOMAIN m
        /\ m["PartitionerYear"] \in {None, "SqlPartitionerYear"}
        /\ "PartitionerColumnValue" \in DOMAIN m
        /\ m["PartitionerColumnValue"] = "SqlPartitionerColumnValue"
        /\ "PartitionerConvertedDatetime" \in DOMAIN m =>
               m["PartitionerConvertedDatetime"]
                   \in {None, "SqlPartitionerConvertedDatetime", "SqlPartitionerYear"}}

Names == {"asset_a", "asset_b"}

TableNames == {"", "events"}

SchemaNames == {None, "main"}

Queries == {"SELECT 1", "SELECT * FROM events"}

OrderBys == {None, "[+ts]"}

BatchMetadatas == {None, "{env: test}"}

TableAssetArgs ==
    [name : Names, table_name : TableNames, schema_name : SchemaNames,
     order_by : OrderBys, batch_metadata : BatchMetadatas]

QueryAssetArgs ==
    [name : Names, query : Queries, order_by : OrderBys,
     batch_metadata : BatchMetadatas]

\* dict item assignment: d[k] = v
SetItem(d, k, v) == [x \in DOMAIN d \cup {k} |-> IF x = k THEN v ELSE d[x]]

\* the generic asset constructor (super().__init__(**kwargs)): the object it
\* leaves, with whatever map it set up
SqlAsset_init(cls, type, kwargs, base_map, id) ==
    [class |-> cls, type |-> type, id |-> id, fields |-> kwargs,
     partitioner_implementation_map |-> base_map]

\* forgets the Sqlite-specific entry
SqliteTableAsset_init_Mutant(kwargs, base_map, id) ==
    SqlAsset_init("SqliteTableAsset", "table", kwargs, base_map, id)

SqliteTableAsset_init(kwargs, base_map, id) ==
    LET self == SqlAsset_init("SqliteTableAsset", "table", kwargs, base_map, id)
    IN  [self EXCEPT !.partitioner_implementation_map =
            SetItem(@, "PartitionerConvertedDatetime",
                    "SqlitePartitionerConvertedDateTime")]

SqliteQueryAsset_init(kwargs, base_map, id) ==
    LET self == SqlAsset_init("SqliteQueryAsset", "query", kwargs, base_map, id)
    IN  [self EXCEPT !.partitioner_implementation_map =
            SetItem(@, "PartitionerConvertedDatetime",
                    "SqlitePartitionerConvertedDateTime")]

\* the private attributes _TableAsset and _QueryAsset of SqliteDatasource
TableAsset_class == "SqliteTableAsset"

QueryAsset_class == "SqliteQueryAsset"

\* constructing an asset of class cls
Construct(cls, kwargs, base_map, id) ==
    IF cls = "SqliteTableAsset" THEN SqliteTableAsset_init(kwargs, base_map, id)
    ELSE IF cls = "SqliteQueryAsset" THEN SqliteQueryAsset_init(kwargs, base_map, id)
    ELSE SqlAsset_init(cls, IF cls = "TableAsset" THEN "table" ELSE "query",
                       kwargs, base_map, id)

\* SQLDatasource.add_table_asset / add_query_asset: builds an asset of the
\* datasource's own asset class from the keyword arguments and returns it
SQLDatasource_add_asset(cls, kwargs, base_map, id) ==
    Return(Construct(cls, kwargs, base_map, id))

\* typing.cast returns its argument
cast(type, value) == value

\* passes the schema name where the table name belongs
add_table_asset_super_kwargs_Mutant(name, table_name, schema_name, order_by, batch_metadata) ==
    [name |-> name, table_name |-> schema_name, schema_name |-> schema_name,
     order_by |-> order_by, batch_metadata |-> batch_metadata]

\* the keyword arguments of the super().add_table_asset(...) call
add_table_asset_super_kwargs(name, table_name, schema_name, order_by, batch_metadata) ==
    [name |-> name, table_name |-> table_name, schema_name |-> schema_name,
     order_by |-> order_by, batch_metadata |-> batch_metadata]

\* the keyword arguments of the super().add_query_asset(...) call
add_query_asset_super_kwargs(name, query, order_by, batch_metadata) ==
    [name |-> name, query |-> query, order_by |-> order_by,
     batch_metadata |-> batch_metadata]

StartAssets ==
    /\ asset_count = 0
    /\ asset_call = NoCall

IdleAssets == StartAssets

\* SqliteTableAsset(**kwargs)
ConstructTableAsset ==
    /\ asset_count < MaxAssets
    /\ \E kwargs \in TableAssetArgs, base_map \in BaseMaps :
          asset_call' = [op |-> "SqliteTableAsset", args |-> kwargs,
                         base_map |-> base_map,
                         outcome |-> Return(SqliteTableAsset_init(
                                        kwargs, base_map, asset_count + 1))]
    /\ asset_count' = asset_count + 1
    /\ UNCHANGED <<pvars, dvars, evars, cvars>>

\* SqliteQueryAsset(**kwargs)
ConstructQueryAsset ==
    /\ asset_count < MaxAssets
    /\ \E kwargs \in QueryAssetArgs, base_map \in BaseMaps :
          asset_call' = [op |-> "SqliteQueryAsset", args |-> kwargs,
                         base_map |-> base_map,
                         outcome |-> Return(SqliteQueryAsset_init(
                                        kwargs, base_map, asset_count + 1))]
    /\ asset_count' = asset_count + 1
    /\ UNCHANGED <<pvars, dvars, evars, cvars>>

\* SqliteDatasource.add_table_asset(name, table_name, schema_name, order_by,
\* batch_metadata); the generic method either returns the asset it built or
\* ends in an exception, which add_table_asset does not catch
AddTableAsset ==
    /\ asset_count < MaxAssets
    /\ \E args \in TableAssetArgs, base_map \in BaseMaps :
          LET kwargs == add_table_asset_super_kwargs(
                            args.name, args.table_name, args.schema_name,
                            args.order_by, args.batch_metadata)
              super_outcome == SQLDatasource_add_asset(
                                   TableAsset_class, kwargs, base_map, asset_count + 1)
              call == [op |-> "add_table_asset", args |-> args, base_map |-> base_map,
                       super_calls |-> <<[method |-> "add_table_asset",
                                          kwargs |-> kwargs]>>]
          IN  \/ /\ asset_call' = call @@ [super_outcome |-> super_outcome,
                                           outcome |-> Return(cast("SqliteTableAsset",
                                                                   super_outcome.value))]
                 /\ asset_count' = asset_count + 1
              \/ /\ asset_call' = call @@ [super_outcome |-> Raise("Exception"),
                                           outcome |-> Raise("Exception")]
                 /\ UNCHANGED asset_count
    /\ UNCHANGED <<pvars, dvars, evars, cvars>>

\* SqliteDatasource.add_query_asset(name, query, order_by, batch_metadata)
AddQueryAsset ==
    /\ asset_count < MaxAssets
    /\ \E args \in QueryAssetArgs, base_map \in BaseMaps :
          LET kwargs == add_query_asset_super_kwargs(
                            args.name, args.query, args.order_by, args.batch_metadata)
              super_outcome == SQLDatasource_add_asset(
                                   QueryAsset_class, kwargs, base_map, asset_count + 1)
              call == [op |-> "add_query_asset", args |-> args, base_map |-> base_map,
                       super_calls |-> <<[method |-> "add_query_asset",
                                          kwargs |-> kwargs]>>]
          IN  \/ /\ asset_call' = call @@ [super_outcome |-> super_outcome,
                                           outcome |-> Return(cast("SqliteQueryAsset",
                                                                   super_outcome.value))]
                 /\ asset_count' = asset_count + 1
              \/ /\ asset_call' = call @@ [super_outcome |-> Raise("Exception"),
                                           outcome |-> Raise("Exception")]
                 /\ UNCHANGED asset_count
    /\ UNCHANGED <<pvars, dvars, evars, cvars>>

NextAssets ==
    \/ ConstructTableAsset
    \/ ConstructQueryAsset
    \/ AddTableAsset
    \/ AddQueryAsset

(***************************************************************************)
(* tests/integration/cloud/rest_contracts/test_datasource.py               *)
(*                                                                         *)
(* A JSON object is a function from its keys, and a pact matcher is a      *)
(* record naming the matcher and what it wraps.                            *)
(***************************************************************************)
OrganizationIds == {"0ccac18e-7631-4bdd-8a42-3c35cce574c6",
                    "e7ac0674-0f3b-4694-9db9-1d2ae8c9ec4d"}

Uuids == {"fc763eba-0905-41c5-a27f-3934ab26786c",
          "1b2c3d4e-0000-4000-8000-123456789abc",
          "9f8e7d6c-1111-4111-9111-cba987654321"}

\* what a service may put under "id"
IdValues == Uuids \cup {"not-a-uuid", ""}

ResponseStatuses == {200, 201, 404}

NoKeys == <<>>

ResponseBodies ==
    {NoKeys, [data |-> NoKeys], [errors |-> "not found"]}
      \cup {[data |-> [id |-> v]] : v \in IdValues}
      \cup {[data |-> [id |-> v, name |-> "my_sqlite"]] : v \in IdValues}

DATASOURCE_MIN_RESPONSE_BODY ==
    [data |-> [matcher |-> "Like",
               contents |-> [id |-> [matcher |-> "Format.uuid"]]]]

\* answers that the Data Source was created
contract_interaction_Mutant ==
    [method |-> "PUT",
     upon_receiving |-> "a request to add a Data Source",
     given |-> "the Data Source does not exist",
     response_status |-> 201,
     response_body |-> DATASOURCE_MIN_RESPONSE_BODY]

contract_interaction ==
    [method |-> "PUT",
     upon_receiving |-> "a request to add a Data Source",
     given |-> "the Data Source does not exist",
     response_status |-> 200,
     response_body |-> DATASOURCE_MIN_RESPONSE_BODY]

\* pathlib.Path("/", "organizations", organization_id, "datasources", uuid)
endpoint_path(organization_id, uuid) ==
    <<"/", "organizations", organization_id, "datasources", uuid>>

\* pact.Format().uuid: a string in the 8-4-4-4-12 hexadecimal form
MatchesUuidFormat(v) == v \in Uuids

\* pact's matching of a response body against DATASOURCE_MIN_RESPONSE_BODY's
\* shape: the key "data" holds an object in which every key of the Like's
\* contents is present and matches; further keys are allowed
MatchesBody(expected, body) ==
    /\ \A k \in DOMAIN expected : k \in DOMAIN body
    /\ "data" \in DOMAIN expected =>
          /\ "data" \in DOMAIN body
          /\ \A k \in DOMAIN expected["data"].contents :
                /\ k \in DOMAIN body["data"]
                /\ expected["data"].contents[k].matcher = "Format.uuid" =>
                       MatchesUuidFormat(body["data"][k])

StartContract ==
    /\ pact_pc = "start"
    /\ pact_path = <<>>
    /\ pact_mock = {}
    /\ pact_exchange = NoCall

IdleContract == StartContract

\* test_datasource builds the endpoint path from the organization fixture
\* and a uuid4
BuildPath ==
    /\ pact_pc = "start"
    /\ \E org \in OrganizationIds, id \in Uuids :
          pact_path' = endpoint_path(org, id)
    /\ pact_pc' = "path_built"
    /\ UNCHANGED <<pact_mock, pact_exchange, pvars, dvars, evars, avars>>

\* run_pact_test registers the interaction: given(...).upon_receiving(...)
\* .with_request(method, path).will_respond_with(status, body)
RegisterInteraction ==
    /\ pact_pc = "path_built"
    /\ pact_mock' = {[given |-> contract_interaction.given,
                      upon_receiving |-> contract_interaction.upon_receiving,
                      request |-> [method |-> contract_interaction.method,
                                   path |-> pact_path],
                      response |-> [status |-> contract_interaction.response_status,
                                    body |-> contract_interaction.response_body]]}
    /\ pact_pc' = "registered"
    /\ UNCHANGED <<pact_path, pact_exchange, pvars, dvars, evars, avars>>

\* the request is sent and the service answers it
Exchange ==
    /\ pact_pc = "registered"
    /\ \E status \in ResponseStatuses, body \in ResponseBodies :
          pact_exchange' = [op |-> "exchange",
                            request |-> [method |-> contract_interaction.method,
                                         path |-> pact_path],
                            response |-> [status |-> status, body |-> body]]
    /\ pact_pc' = "answered"
    /\ UNCHANGED <<pact_path, pact_mock, pvars, dvars, evars, avars>>

\* pact compares the exchange with the registered interaction
Verify ==
    /\ pact_pc = "answered"
    /\ pact_pc' =
          IF \E i \in pact_mock :
                /\ i.request = pact_exchange.request
                /\ i.response.status = pact_exchange.response.status
                /\ MatchesBody(i.response.body, pact_exchange.response.body)
          THEN "verified" ELSE "failed"
    /\ UNCHANGED <<pact_path, pact_mock, pact_exchange, pvars, dvars, evars, avars>>

NextContract ==
    \/ BuildPath
    \/ RegisterInteraction
    \/ Exchange
    \/ Verify

(***************************************************************************)
(* Specifications, one per component                                       *)
(***************************************************************************)
IdlePartitioner ==
    /\ partitioner = [date_format_string |-> "%Y-%m-%d", column_name |-> "ts",
                      method_name |-> "partition_on_converted_datetime"]
    /\ options = <<>>
    /\ last_call = NoCall

IdleDsn == dsn_call = NoCall

InitPartitioner == StartPartitioner /\ IdleDsn /\ IdleEngine /\ IdleAssets /\ IdleContract

SpecPartitioner == InitPartitioner /\ [][NextPartitioner]_vars

InitDsn == IdlePartitioner /\ StartDsn /\ IdleEngine /\ IdleAssets /\ IdleContract

SpecDsn == InitDsn /\ [][NextDsn]_vars

InitEngine == IdlePartitioner /\ IdleDsn /\ StartEngine /\ IdleAssets /\ IdleContract

SpecEngine == InitEngine /\ [][NextEngine]_vars

InitAssets == IdlePartitioner /\ IdleDsn /\ IdleEngine /\ StartAssets /\ IdleContract

SpecAssets == InitAssets /\ [][NextAssets]_vars

InitContract ==
    IdlePartitioner /\ IdleDsn /\ IdleEngine /\ IdleAssets /\ StartContract

SpecContract == InitContract /\ [][NextContract]_vars


(***************************************************************************)
(* Properties of PartitionerConvertedDateTime                              *)
(***************************************************************************)
IdentifiersCalled ==
    last_call.op = "batch_request_options_to_batch_spec_kwarg_identifiers"

\* C1: when the options contain the key "datetime", the identifiers call
\* returns a mapping with exactly one entry, column_name -> options["datetime"],
\* the value passed through unchanged (None included) and all other keys of
\* the options ignored.
C1_IdentifierIsColumnToDatetime ==
    (IdentifiersCalled /\ "datetime" \in DOMAIN last_call.options) =>
        /\ last_call.outcome.kind = "return"
        /\ DOMAIN last_call.outcome.value = {last_call.self.column_name}
        /\ Cardinality(DOMAIN last_call.outcome.value) = 1
        /\ last_call.outcome.value[last_call.self.column_name]
               = last_call.options["datetime"]

\* a call whose options hold "datetime" -> None beside two other keys, on a
\* partitioner whose column is not named "datetime", has returned
C1_Witness ==
    /\ IdentifiersCalled
    /\ DOMAIN last_call.options = {"datetime", "year", "col_a"}
    /\ last_call.options["datetime"] = None
    /\ last_call.options["col_a"] = "20210101"
    /\ last_call.self.column_name = "col_a"
    /\ last_call.outcome.kind = "return"

\* C2: when the options do not contain the key "datetime", the identifiers
\* call ends in a ValueError and returns no mapping at all, and the
\* partitioner and the options are what they were before the call.
C2_MissingDatetimeRaises ==
    (IdentifiersCalled /\ "datetime" \notin DOMAIN last_call.options) =>
        /\ last_call.outcome = Raise("ValueError")
        /\ "value" \notin DOMAIN last_call.outcome
        /\ partitioner = last_call.self
        /\ options = last_call.options

\* a call with non-empty options that lack "datetime" has raised
C2_Witness ==
    /\ IdentifiersCalled
    /\ DOMAIN last_call.options = {"year", "col_a"}
    /\ last_call.outcome.kind = "raise"

\* C10: param_names is exactly ["datetime"], so options that supply every
\* name in param_names never run into the missing-"datetime" error; and
\* partitioner_method_kwargs is exactly column_name and date_format_string
\* with the partitioner's own values, column_name being the key of the
\* identifier mapping.
C10_InterfaceConsistent ==
    /\ last_call.op = "param_names" =>
           last_call.outcome = Return(<<"datetime">>)
    /\ (/\ IdentifiersCalled
        /\ \A i \in 1..Len(param_names(last_call.self)) :
               param_names(last_call.self)[i] \in DOMAIN last_call.options) =>
           /\ last_call.outcome.kind = "return"
           /\ DOMAIN last_call.outcome.value
                  = {partitioner_method_kwargs(last_call.self)["column_name"]}
    /\ last_call.op = "partitioner_method_kwargs" =>
           /\ last_call.outcome.kind = "return"
           /\ DOMAIN last_call.outcome.value = {"column_name", "date_format_string"}
           /\ last_call.outcome.value["column_name"] = partitioner.column_name
           /\ last_call.outcome.value["date_format_string"]
                  = partitioner.date_format_string

\* options holding just the names of param_names were turned into an identifier
C10_Witness ==
    /\ IdentifiersCalled
    /\ DOMAIN last_call.options = {"datetime"}
    /\ last_call.outcome.kind = "return"
    /\ DOMAIN last_call.outcome.value = {partitioner.column_name}

(***************************************************************************)
(* Properties of SqliteDsn                                                 *)
(***************************************************************************)
\* C4: SqliteDsn accepts a connection string only if its scheme is one of
\* sqlite, sqlite+pysqlite, sqlite+aiosqlite, sqlite+pysqlcipher; every other
\* scheme is rejected, and a URL with one of the four is accepted without a
\* host part.
C4_OnlyFourSchemes ==
    dsn_call.op = "validate" =>
        LET four == {"sqlite", "sqlite+pysqlite", "sqlite+aiosqlite",
                     "sqlite+pysqlcipher"}
        IN  /\ dsn_call.outcome.kind = "return" => dsn_call.url.scheme \in four
            /\ dsn_call.url.scheme \notin four => dsn_call.outcome.kind = "raise"
            /\ (dsn_call.url.scheme \in four /\ dsn_call.url.host = None) =>
                   dsn_call.outcome = Return(dsn_call.url)

\* sqlite+pysqlcipher:///data/test.db, which has no host, was accepted
C4_Witness ==
    /\ dsn_call.op = "validate"
    /\ dsn_call.url = [scheme |-> "sqlite+pysqlcipher", host |-> None,
                       path |-> "/data/test.db"]
    /\ dsn_call.outcome.kind = "return"

C9_EngineCreationArguments ==
    \A i \in 1..Len(engine_calls) :
        /\ engine_calls[i].connection_string.type # "ConfigStr"
        /\ engine_calls[i].kwargs
              = (IF "kwargs" \in ds.fields_set THEN ds.kwargs ELSE NoKwargs)
        /\ DOMAIN engine_calls[i] = {"connection_string", "poolclass", "kwargs"}

(***************************************************************************)
(* Properties of the assets and the asset factories                        *)
(***************************************************************************)
AssetBuilt ==
    /\ asset_call.op \in {"SqliteTableAsset", "SqliteQueryAsset",
                          "add_table_asset", "add_query_asset"}
    /\ asset_call.outcome.kind = "return"

\* C5: once a SqliteTableAsset or a SqliteQueryAsset is constructed, its
\* partitioner implementation map sends PartitionerConvertedDatetime to
\* SqlitePartitionerConvertedDateTime, whatever the generic constructor put
\* there, and every other entry is exactly what the generic constructor set.
C5_SqlitePartitionerInMap ==
    AssetBuilt =>
        LET map  == asset_call.outcome.value.partitioner_implementation_map
            base == asset_call.base_map
        IN  /\ "PartitionerConvertedDatetime" \in DOMAIN map
            /\ map["PartitionerConvertedDatetime"]
                   = "SqlitePartitionerConvertedDateTime"
            /\ DOMAIN map \ {"PartitionerConvertedDatetime"}
                   = DOMAIN base \ {"PartitionerConvertedDatetime"}
            /\ \A k \in DOMAIN map \ {"PartitionerConvertedDatetime"} :
                   map[k] = base[k]

\* a table asset whose generic constructor had mapped the partitioner to the
\* generic implementation
C5_Witness ==
    /\ asset_call.op = "SqliteTableAsset"
    /\ "PartitionerConvertedDatetime" \in DOMAIN asset_call.base_map
    /\ asset_call.base_map["PartitionerConvertedDatetime"]
           = "SqlPartitionerConvertedDatetime"
    /\ asset_call.base_map["PartitionerYear"] = None
    /\ asset_call.outcome.value.partitioner_implementation_map["PartitionerYear"]
           = None

\* C6: add_table_asset and add_query_asset pass every argument they receive
\* unchanged to the generic method of the same name, call it exactly once and
\* return the very asset it returns, which is a SqliteTableAsset for
\* add_table_asset and a SqliteQueryAsset for add_query_asset.
C6_FactoriesDelegate ==
    asset_call.op \in {"add_table_asset", "add_query_asset"} =>
        /\ Len(asset_call.super_calls) = 1
        /\ asset_call.super_calls[1].method = asset_call.op
        /\ asset_call.super_calls[1].kwargs = asset_call.args
        /\ asset_call.outcome = asset_call.super_outcome
        /\ asset_call.outcome.kind = "return" =>
              /\ asset_call.outcome.value.id = asset_call.super_outcome.value.id
              /\ asset_call.outcome.value.fields = asset_call.args
              /\ asset_call.outcome.value.class
                    = (IF asset_call.op = "add_table_asset"
                       THEN "SqliteTableAsset" ELSE "SqliteQueryAsset")

\* a second asset, a table asset with a schema name and no table name, was added
C6_Witness ==
    /\ asset_call.op = "add_table_asset"
    /\ asset_call.args.table_name = ""
    /\ asset_call.args.schema_name = "main"
    /\ asset_call.outcome.kind = "return"
    /\ asset_call.outcome.value.id = 2
    /\ asset_call.outcome.value.class = "SqliteTableAsset"

(***************************************************************************)
(* Properties of the contract test                                         *)
(***************************************************************************)
\* C7: in the contract exchange for adding a Data Source, a PUT request to
\* /organizations/<existing organization id>/datasources/<fresh uuid>, given
\* that the Data Source does not exist, is answered with status 200 and a
\* body whose "data" object has an "id" that is a UUID.
C7_AddDatasourceContract ==
    pact_pc = "verified" =>
        /\ \A i \in pact_mock : i.given = "the Data Source does not exist"
        /\ pact_exchange.request.method = "PUT"
        /\ \E org \in OrganizationIds, id \in Uuids :
              pact_exchange.request.path
                  = <<"/", "organizations", org, "datasources", id>>
        /\ pact_exchange.response.status = 200
        /\ "data" \in DOMAIN pact_exchange.response.body
        /\ "id" \in DOMAIN pact_exchange.response.body["data"]
        /\ pact_exchange.response.body["data"]["id"] \in Uuids

\* an exchange whose body carries a further key beside data.id was verified
C7_Witness ==
    /\ pact_pc = "verified"
    /\ pact_exchange.response.status = 200
    /\ DOMAIN pact_exchange.response.body["data"] = {"id", "name"}

====
